---- MODULE Spec2Model ----
(***************************************************************************)
(* django-override-storage: the override controller (override_storage,     *)
(* stats_override_storage), its stack of snapshot frames, the in-memory     *)
(* blob store (LocMemStorage, StatsLocMemStorage) and the Stats recorder.   *)
(*                                                                         *)
(* Python objects are modelled by identity: a test storage is an index     *)
(* into `stores`, a Stats object an index into `stats`; the storages the   *)
(* fields hold before any override are negative numbers.  A dict is a      *)
(* sequence of entries in insertion order.  File names are sequences of    *)
(* characters, so that Python's `in` on a str is a substring test.         *)
(***************************************************************************)
EXTENDS Integers, Sequences, FiniteSets, TLC

\* ---------------------------------------------------------------- bounds
MaxStores == 4
MaxStats == 2
MaxIO == 2
MaxOps == 3
MaxDepth == 1
MaxThreads == 2

\* ------------------------------------------------------- program constants
\* Python's None, for a reference that holds no storage / no Stats object.
NoneRef == 0

\* ------------------------------------------------------------------ fields
\* The FileField instances of the registered models.  "f1" is the field
\* SimpleModel.upload_file, which SimpleProxyModel shares; "f2" is a
\* FileField of a second model.
Fields == {"f1", "f2"}

creation_counter(field) == IF field = "f1" THEN 1 ELSE 2

app_label(field) == "tests"

model_name(field) == IF field = "f1" THEN "simplemodel" ELSE "othermodel"

field_name(field) == IF field = "f1" THEN "upload_file" ELSE "attachment"

\* apps.get_models() yields SimpleModel, SimpleProxyModel and the second
\* model; the proxy's _meta.fields holds the very field instance of its base.
filefields == <<"f1", "f1", "f2">>

\* The storage a field holds before any override (the FileSystemStorage
\* given in the model's declaration): one object per field.
DeclaredStorage(field) == 0 - creation_counter(field)

get_full_field_name(field) == <<app_label(field), model_name(field), field_name(field)>>

get_field_hash(field) == <<creation_counter(field), app_label(field), model_name(field)>>

FieldKeys == {get_full_field_name(f) : f \in Fields}

FieldOfKey(key) == CHOOSE f \in Fields : get_full_field_name(f) = key

\* ------------------------------------------------------------- controllers
\* "p" is override_storage() (storage=None, so storage_callable is
\* LocMemStorage and one instance is shared by all fields); "s" and "s2"
\* are two instances of stats_override_storage().
PlainCtrls == {"p"}

StatsCtrls == {"s", "s2"}

Ctrls == PlainCtrls \cup StatsCtrls

\* The attributes override_storage.__init__ gives the controller object.
storage_callable(w, c) == w.ctl[c].storage_callable

\* storage_per_field read as if it were never set.
storage_per_field_ignored(w, c) == FALSE

storage_per_field(w, c) == w.ctl[c].storage_per_field

\* An argument of a constructor: None, a callable (a storage class, or the
\* function a bare decorator is applied to) or a storage instance.
NoArg == [kind |-> "none", ref |-> NoneRef, cls |-> ""]

CallableArg(cls) == [kind |-> "callable", ref |-> NoneRef, cls |-> cls]

InstanceArg(s) == [kind |-> "instance", ref |-> s, cls |-> ""]

\* ------------------------------------------------------------------- state
VARIABLES
    storage,            \* field.storage, per field
    original_storage,   \* field._original_storage, NoneRef while unset
    stores,             \* the test storages constructed so far
    stats,              \* the Stats objects constructed so far
    ctl,                \* per controller: storage, stats_obj, storage_stack, previous_storages
    acts,               \* history: the activations that are open, oldest first
    nested,             \* history: every call so far was a successful enable or the exit of the innermost open activation
    io,                 \* number of saves, opens, deletes and Stats lookups done (also the clock of now())
    logged,             \* history: the <<Stats object, field key, name>> of every log_save so far
    saves,              \* history: every save so far, oldest first, and whether its blob was deleted since
    thr,                \* per thread: the storage operation it is in, its position, its locals, the lock it holds
    last                \* history: the last call, its inputs, its outcome and the state before it

vars == <<storage, original_storage, stores, stats, ctl, acts, nested, io, logged, saves, thr, last>>

EmptyDict == <<>>

\* The threads that use the stores of an activation at the same time.
Threads == 1..MaxThreads

\* A thread that has not called anything yet.
Idle == [pc |-> "idle", op |-> "", field |-> "", store |-> NoneRef, name |-> <<>>, target |-> <<>>, content |-> <<>>, mode |-> <<>>, local |-> 0, holds |-> NoneRef, ret |-> <<>>, exc |-> "none"]

\* The program state as one value.
World == [storage |-> storage, original_storage |-> original_storage, stores |-> stores, stats |-> stats, ctl |-> ctl]

\* --------------------------------------------------------------- dict model
HasKey(d, k) == \E i \in 1..Len(d) : d[i].k = k

KeyIndex(d, k) == CHOOSE i \in 1..Len(d) : d[i].k = k

DictGet(d, k) == d[KeyIndex(d, k)].v

DictPut(d, k, v) == IF HasKey(d, k) THEN [d EXCEPT ![KeyIndex(d, k)] = [k |-> k, v |-> v]] ELSE Append(d, [k |-> k, v |-> v])

\* --------------------------------------------------------- Stats and stores
\* Stats(): the three class-level counters are 0 and each *_by_field
\* cached_property is an empty defaultdict(list).
NewStats == [read_cnt |-> 0, save_cnt |-> 0, delete_cnt |-> 0, reads_by_field |-> EmptyDict, saves_by_field |-> EmptyDict, deletes_by_field |-> EmptyDict]

\* LocMemStorage.__init__ / StatsLocMemStorage.__init__: an empty cache; the
\* instrumented store also keeps the field and the Stats object it is given.
NewStore(cls, field, st) == [cls |-> cls, cache |-> EmptyDict, field |-> field, stats |-> st]

\* _create_stats_obj that keeps the Stats object the controller already has.
create_stats_obj_once(w, c) == IF w.ctl[c].stats_obj # NoneRef THEN w ELSE [w EXCEPT !.stats = Append(@, NewStats), !.ctl[c].stats_obj = Len(w.stats) + 1]

\* StatsStorageTestMixin._create_stats_obj
create_stats_obj(w, c) == [w EXCEPT !.stats = Append(@, NewStats), !.ctl[c].stats_obj = Len(w.stats) + 1]

\* StorageTestMixin.get_storage_from_callable with the kwargs of
\* get_storage_kwargs: the instrumented variant passes stats_obj and the field.
get_storage_from_callable(w, c, field) == Append(w.stores, NewStore(storage_callable(w, c), IF c \in StatsCtrls THEN field ELSE "", IF c \in StatsCtrls THEN w.ctl[c].stats_obj ELSE NoneRef))

\* ------------------------------------------------------ the override stack
Top(stack) == stack[Len(stack)]

\* previous_storages is the dict object that is also the top of the stack:
\* a reference is <<frame>>, None is <<>>.
push_storage_stack(w, c) == [w EXCEPT !.ctl[c].storage_stack = Append(@, EmptyDict), !.ctl[c].previous_storages = <<EmptyDict>>]

\* pop_storage_stack taking the oldest frame (`pop(0)`) instead of the newest.
pop_storage_stack_oldest(w, c) ==
    LET stack == w.ctl[c].storage_stack
        rest == SubSeq(stack, 2, Len(stack))
    IN  IF Len(stack) = 0
        THEN [w |-> w, exc |-> "IndexError", popped |-> EmptyDict]
        ELSE [w |-> [w EXCEPT !.ctl[c].storage_stack = rest, !.ctl[c].previous_storages = IF Len(rest) > 0 THEN <<Top(rest)>> ELSE <<>>],
              exc |-> "none", popped |-> stack[1]]

pop_storage_stack(w, c) ==
    LET stack == w.ctl[c].storage_stack
        rest == SubSeq(stack, 1, Len(stack) - 1)
    IN  IF Len(stack) = 0
        THEN [w |-> w, exc |-> "IndexError", popped |-> EmptyDict]
        ELSE [w |-> [w EXCEPT !.ctl[c].storage_stack = rest, !.ctl[c].previous_storages = IF Len(rest) > 0 THEN <<Top(rest)>> ELSE <<>>],
              exc |-> "none", popped |-> Top(stack)]

\* The frame entry made with the storage of the field's declaration
\* rather than the storage the field holds.
RecordField_declared(w, c, field) ==
    LET Write(stack, frame) == [w EXCEPT !.ctl[c].storage_stack = [stack EXCEPT ![Len(stack)] = frame], !.ctl[c].previous_storages = <<frame>>]
    IN  Write(w.ctl[c].storage_stack, DictPut(Top(w.ctl[c].storage_stack), get_field_hash(field), [field |-> field, storage |-> DeclaredStorage(field)]))

\* previous_storages[hash] = (field, field.storage): the write goes to the
\* one dict that the stack's top and previous_storages both refer to.
RecordField(w, c, field) ==
    LET Write(stack, frame) == [w EXCEPT !.ctl[c].storage_stack = [stack EXCEPT ![Len(stack)] = frame], !.ctl[c].previous_storages = <<frame>>]
    IN  Write(w.ctl[c].storage_stack, DictPut(Top(w.ctl[c].storage_stack), get_field_hash(field), [field |-> field, storage |-> w.storage[field]]))

\* The loop of setup_storage without its `continue` for a captured field.
NeverCaptured(w, c, field) == FALSE

\* `self.get_field_hash(field) in previous_storages`
AlreadyCaptured(w, c, field) == HasKey(Top(w.ctl[c].storage_stack), get_field_hash(field))

\* StorageTestMixin.set_storage and get_storage.  `k` counts the calls of
\* the storage callable that succeed before one raises (-1: none raises).
set_storage(w, c, field, k) ==
    LET Assign(w1, made) == [w |-> [w1 EXCEPT !.stores = made, !.storage[field] = Len(made)], exc |-> "none", k |-> IF k > 0 THEN k - 1 ELSE k]
        GetStorage(w1) ==
            IF w1.ctl[c].storage # NoneRef
            THEN [w |-> [w1 EXCEPT !.storage[field] = w1.ctl[c].storage], exc |-> "none", k |-> k]
            ELSE IF k = 0
            THEN [w |-> w1, exc |-> "Error", k |-> k]
            ELSE Assign(w1, get_storage_from_callable(w1, c, field))
    IN  GetStorage(IF w.original_storage[field] = NoneRef THEN [w EXCEPT !.original_storage[field] = w.storage[field]] ELSE w)

RECURSIVE CaptureFields(_, _, _, _)
\* The loop of StorageTestMixin.setup_storage, from the i-th enumerated field.
CaptureFields(w, c, i, k) ==
    IF i > Len(filefields)
    THEN [w |-> w, exc |-> "none"]
    ELSE IF AlreadyCaptured(w, c, filefields[i])
    THEN CaptureFields(w, c, i + 1, k)
    ELSE LET Go(r) == IF r.exc # "none" THEN [w |-> r.w, exc |-> r.exc] ELSE CaptureFields(r.w, c, i + 1, r.k)
         IN  Go(set_storage(RecordField(w, c, filefields[i]), c, filefields[i], k))

\* The inputs of enable(): where, if anywhere, the collaborators raise.
\*   "pre":  the Stats constructor, or the storage callable of the shared
\*           instance, raises before the frame is pushed
\*   "enum": the enumeration of the fields raises after the frame is pushed
\*   "call": the storage callable raises in set_storage, after `k` good calls
NoFail == [at |-> "none", k |-> -1]

\* For the exit of a block: the body raised.
BodyRaised == [at |-> "body", k |-> -1]

FailPoints == {NoFail, [at |-> "pre", k |-> -1], [at |-> "enum", k |-> -1]} \cup {[at |-> "call", k |-> k] : k \in 0..(Cardinality(Fields) - 1)}

\* StorageTestMixin.setup_storage
base_setup_storage(w, c, fail) ==
    LET Done(r) == [w |-> r.w, exc |-> r.exc, ret |-> NoneRef]
        Loop(pushed) == IF fail.at = "enum" THEN [w |-> pushed, exc |-> "Error", ret |-> NoneRef] ELSE Done(CaptureFields(pushed, c, 1, fail.k))
    IN  Loop(push_storage_stack(w, c))

\* override_storage.setup_storage that constructs the shared instance only
\* while the controller has none.
setup_storage_keep(w, c, fail) ==
    IF fail.at = "pre" THEN [w |-> w, exc |-> "Error", ret |-> NoneRef]
    ELSE IF c \in StatsCtrls
    THEN LET Return(stats_obj, r) == [r EXCEPT !.ret = IF r.exc = "none" THEN stats_obj ELSE NoneRef]
             Super(w1) == Return(w1.ctl[c].stats_obj, base_setup_storage(w1, c, fail))
         IN  Super(create_stats_obj(w, c))
    ELSE IF storage_callable(w, c) # "" /\ ~storage_per_field(w, c) /\ w.ctl[c].storage = NoneRef
    THEN LET Super(made) == base_setup_storage([w EXCEPT !.stores = made, !.ctl[c].storage = Len(made)], c, fail)
         IN  Super(get_storage_from_callable(w, c, ""))
    ELSE base_setup_storage(w, c, fail)

\* override_storage.setup_storage and StatsStorageTestMixin.setup_storage
setup_storage(w, c, fail) ==
    IF fail.at = "pre" THEN [w |-> w, exc |-> "Error", ret |-> NoneRef]
    ELSE IF c \in StatsCtrls
    THEN LET Return(stats_obj, r) == [r EXCEPT !.ret = IF r.exc = "none" THEN stats_obj ELSE NoneRef]
             Super(w1) == Return(w1.ctl[c].stats_obj, base_setup_storage(w1, c, fail))
         IN  Super(create_stats_obj(w, c))
    ELSE IF storage_callable(w, c) # "" /\ ~storage_per_field(w, c)
    THEN LET Super(made) == base_setup_storage([w EXCEPT !.stores = made, !.ctl[c].storage = Len(made)], c, fail)
         IN  Super(get_storage_from_callable(w, c, ""))
    ELSE base_setup_storage(w, c, fail)

\* The loop of teardown_storage leaving after its first field.
RestoreFrom_first(st, frame, i) == IF i > Len(frame) THEN st ELSE [st EXCEPT ![frame[i].v.field] = frame[i].v.storage]

RECURSIVE RestoreFrom(_, _, _)
\* `for field, original_storage in previous_storages.values()`
RestoreFrom(st, frame, i) ==
    IF i > Len(frame) THEN st
    ELSE RestoreFrom([st EXCEPT ![frame[i].v.field] = frame[i].v.storage], frame, i + 1)

\* StorageTestMixin.teardown_storage without its `except IndexError`.
teardown_storage_uncaught(w, c) ==
    LET Restore(r) ==
            IF r.exc = "IndexError" THEN [w |-> w, exc |-> "IndexError"]
            ELSE [w |-> [r.w EXCEPT !.storage = RestoreFrom(r.w.storage, r.popped, 1)], exc |-> "none"]
    IN  Restore(pop_storage_stack(w, c))

\* StorageTestMixin.teardown_storage
teardown_storage(w, c) ==
    LET Restore(r) ==
            IF r.exc = "IndexError" THEN [w |-> w, exc |-> "none"]
            ELSE [w |-> [r.w EXCEPT !.storage = RestoreFrom(r.w.storage, r.popped, 1)], exc |-> "none"]
    IN  Restore(pop_storage_stack(w, c))

\* StorageTestContextDecoratorBase.enable: `teardowns` counts the calls of
\* teardown_storage it makes.
enable(w, c, fail) ==
    LET Reraise(exc, t) == [w |-> t.w, exc |-> IF t.exc # "none" THEN t.exc ELSE exc, ret |-> NoneRef, teardowns |-> 1]
        Try(r) ==
            IF r.exc = "none"
            THEN [w |-> r.w, exc |-> "none", ret |-> r.ret, teardowns |-> 0]
            ELSE Reraise(r.exc, teardown_storage(r.w, c))
    IN  Try(setup_storage(w, c, fail))

\* StorageTestContextDecoratorBase.disable
disable(w, c) ==
    LET Done(t) == [w |-> t.w, exc |-> t.exc, teardowns |-> 1]
    IN  Done(teardown_storage(w, c))

\* The setUp that decorate_class installs: enable(), then the setUp the
\* class had (`raises`: that one raises).
setUp(w, c, fail, raises) ==
    LET Decorated(r) ==
            IF r.exc # "none" THEN [w |-> r.w, exc |-> r.exc, teardowns |-> r.teardowns, enabled |-> FALSE]
            ELSE [w |-> r.w, exc |-> IF raises THEN "Error" ELSE "none", teardowns |-> r.teardowns, enabled |-> TRUE]
    IN  Decorated(enable(w, c, fail))

\* The tearDown that decorate_class installs: the tearDown the class had
\* (`raises`: that one raises), then disable().
tearDown(w, c, raises) ==
    LET Done(r) == [w |-> r.w, exc |-> r.exc, teardowns |-> r.teardowns, disabled |-> TRUE]
    IN  IF raises THEN [w |-> w, exc |-> "Error", teardowns |-> 0, disabled |-> FALSE] ELSE Done(disable(w, c))

\* ------------------------------------------------------- names and content
\* File names, as sequences of characters.
Names == {<<"a">>, <<"a", "b">>}

\* `a in b` for two Python strings.
IsSubstring(a, b) == \E i \in 0..(Len(b) - Len(a)) : SubSeq(b, i + 1, i + Len(a)) = a

\* What a ContentFile can hold: text or bytes.
Contents == {[type |-> "str", data |-> "x"], [type |-> "bytes", data |-> "y"]}

\* str.encode()
encode(content) == [type |-> "bytes", data |-> content.data]

Modes == {<<"r", "b">>, <<"w", "b">>}

DictDel(d, k) == SelectSeq(d, LAMBDA e : e.k # k)

\* ------------------------------------------------------------------- Stats
\* A value of a *_by_field defaultdict(list): the default [] or, once a
\* log_* call has assigned it, the file name (a str).
EmptyList == [kind |-> "list", s |-> <<>>]

StrValue(fname) == [kind |-> "str", s |-> fname]

\* Stats.log_read
log_read(w, st, field, fname) == [w EXCEPT !.stats[st].read_cnt = @ + 1, !.stats[st].reads_by_field = DictPut(@, get_full_field_name(field), StrValue(fname))]

\* log_save counting on the class (`Stats.save_cnt += 1`): every Stats
\* object sees the count.
log_save_on_class(w, st, field, fname) == [w EXCEPT !.stats = [i \in 1..Len(w.stats) |-> IF i = st THEN [w.stats[i] EXCEPT !.save_cnt = @ + 1, !.saves_by_field = DictPut(@, get_full_field_name(field), StrValue(fname))] ELSE [w.stats[i] EXCEPT !.save_cnt = @ + 1]]]

\* Stats.log_save
log_save(w, st, field, fname) == [w EXCEPT !.stats[st].save_cnt = @ + 1, !.stats[st].saves_by_field = DictPut(@, get_full_field_name(field), StrValue(fname))]

\* Stats.log_delete
log_delete(w, st, field, fname) == [w EXCEPT !.stats[st].delete_cnt = @ + 1, !.stats[st].deletes_by_field = DictPut(@, get_full_field_name(field), StrValue(fname))]

\* defaultdict(list).__getitem__: a missing key is inserted with the
\* default [] and never raises KeyError.
defaultdict_getitem(d, k) == IF HasKey(d, k) THEN [d |-> d, v |-> DictGet(d, k), exc |-> "none"] ELSE [d |-> DictPut(d, k, EmptyList), v |-> EmptyList, exc |-> "none"]

\* `fname not in saved_files`: membership in a list, substring of a str.
NotIn(fname, saved_files) == IF saved_files.kind = "list" THEN TRUE ELSE ~IsSubstring(fname, saved_files.s)

\* --------------------------------------------------------------- blob store
IsTestStore(w, s) == s \in 1..Len(w.stores)

IsStatsStore(w, s) == IsTestStore(w, s) /\ w.stores[s].cls = "StatsLocMemStorage"

RECURSIVE get_available_name(_, _)
\* Storage.get_available_name as LocMemStorage._save uses it: a name
\* derived from the given one that the store does not hold.
get_available_name(cache, name) == IF HasKey(cache, name) THEN get_available_name(cache, name \o <<"_">>) ELSE name

\* LocMemStorage._open
LocMem_open(w, s, name, mode) ==
    IF IsSubstring(<<"w">>, mode) THEN [w |-> w, exc |-> "NotImplementedError", ret |-> <<>>]
    ELSE IF ~HasKey(w.stores[s].cache, name) THEN [w |-> w, exc |-> "AttributeError", ret |-> <<>>]
    ELSE [w |-> w, exc |-> "none", ret |-> <<DictGet(w.stores[s].cache, name).content>>]

\* _save storing the content as it was given, text left as text.
LocMem_save_raw(w, s, name, content, now) ==
    LET Store(stored) == [w |-> [w EXCEPT !.stores[s].cache = DictPut(@, stored, [content |-> content, time |-> now])], exc |-> "none", ret |-> <<stored>>]
    IN  Store(get_available_name(w.stores[s].cache, name))

\* _save writing under the requested name, whether it is taken or not.
LocMem_save_overwrite(w, s, name, content, now) ==
    LET Store(bytes) == [w |-> [w EXCEPT !.stores[s].cache = DictPut(@, name, [content |-> bytes, time |-> now])], exc |-> "none", ret |-> <<name>>]
    IN  Store(IF content.type = "bytes" THEN content ELSE encode(content))

\* _save of a store that culls: it drops its oldest entry before it
\* would hold a third one.
LocMem_save_culling(w, s, name, content, now) ==
    LET Store(bytes, stored, kept) == [w |-> [w EXCEPT !.stores[s].cache = DictPut(kept, stored, [content |-> bytes, time |-> now])], exc |-> "none", ret |-> <<stored>>]
    IN  Store(IF content.type = "bytes" THEN content ELSE encode(content), get_available_name(w.stores[s].cache, name), IF Len(w.stores[s].cache) >= 2 THEN Tail(w.stores[s].cache) ELSE w.stores[s].cache)

\* LocMemStorage._save
LocMem_save(w, s, name, content, now) ==
    LET Store(bytes, stored) == [w |-> [w EXCEPT !.stores[s].cache = DictPut(@, stored, [content |-> bytes, time |-> now])], exc |-> "none", ret |-> <<stored>>]
    IN  Store(IF content.type = "bytes" THEN content ELSE encode(content), get_available_name(w.stores[s].cache, name))

\* _delete without its `except KeyError`.
LocMem_delete_strict(w, s, name) == IF HasKey(w.stores[s].cache, name) THEN [w |-> [w EXCEPT !.stores[s].cache = DictDel(@, name)], exc |-> "none", ret |-> <<>>] ELSE [w |-> w, exc |-> "KeyError", ret |-> <<>>]

\* LocMemStorage._delete
LocMem_delete(w, s, name) == [w |-> [w EXCEPT !.stores[s].cache = DictDel(@, name)], exc |-> "none", ret |-> <<>>]

\* _open that logs the read once the open has succeeded.
store_open_log_after(w, s, name, mode) ==
    LET Log(r) == IF r.exc = "none" /\ IsStatsStore(w, s) THEN [r EXCEPT !.w = log_read(w, w.stores[s].stats, w.stores[s].field, name)] ELSE r
    IN  Log(LocMem_open(w, s, name, mode))

\* storage._open(name, mode): StatsLocMemStorage._open logs, then opens.
store_open(w, s, name, mode) == IF IsStatsStore(w, s) THEN LocMem_open(log_read(w, w.stores[s].stats, w.stores[s].field, name), s, name, mode) ELSE LocMem_open(w, s, name, mode)

\* open_no_log going through the logging _open.
open_no_log_logged(w, s, name, mode) == store_open(w, s, name, mode)

\* StatsLocMemStorage.open_no_log; any other storage has no such attribute.
open_no_log(w, s, name, mode) == IF IsStatsStore(w, s) THEN LocMem_open(w, s, name, mode) ELSE [w |-> w, exc |-> "AttributeError", ret |-> <<>>]

\* storage._save(name, content): StatsLocMemStorage._save logs, then saves.
store_save(w, s, name, content, now) == IF IsStatsStore(w, s) THEN LocMem_save(log_save(w, w.stores[s].stats, w.stores[s].field, name), s, name, content, now) ELSE LocMem_save(w, s, name, content, now)

\* delete that logs only when the store holds the name.
store_delete_logging_present(w, s, name) == IF IsStatsStore(w, s) /\ HasKey(w.stores[s].cache, name) THEN LocMem_delete(log_delete(w, w.stores[s].stats, w.stores[s].field, name), s, name) ELSE LocMem_delete(w, s, name)

\* storage.delete(name): LocMemStorage.delete calls self._delete, which
\* StatsLocMemStorage overrides to log first.
store_delete(w, s, name) == IF IsStatsStore(w, s) THEN LocMem_delete(log_delete(w, w.stores[s].stats, w.stores[s].field, name), s, name) ELSE LocMem_delete(w, s, name)

\* LocMemStorage.exists
exists(w, s, name) == [w |-> w, exc |-> "none", ret |-> <<HasKey(w.stores[s].cache, name)>>]

\* len() of a bytes object
len(content) == Len(content.data)

\* size answering 0 for a name the store does not hold.
size_or_zero(w, s, name) == IF ~HasKey(w.stores[s].cache, name) THEN [w |-> w, exc |-> "none", ret |-> <<0>>] ELSE [w |-> w, exc |-> "none", ret |-> <<len(DictGet(w.stores[s].cache, name).content)>>]

\* LocMemStorage.size: `self.cache.get(name)` is None for an absent name
\* and None has no attribute `content`.
size(w, s, name) == IF ~HasKey(w.stores[s].cache, name) THEN [w |-> w, exc |-> "AttributeError", ret |-> <<>>] ELSE [w |-> w, exc |-> "none", ret |-> <<len(DictGet(w.stores[s].cache, name).content)>>]

\* LocMemStorage.get_accessed_time
get_accessed_time(w, s, name) == IF ~HasKey(w.stores[s].cache, name) THEN [w |-> w, exc |-> "AttributeError", ret |-> <<>>] ELSE [w |-> w, exc |-> "none", ret |-> <<DictGet(w.stores[s].cache, name).time>>]

\* LocMemStorage.get_created_time
get_created_time(w, s, name) == IF ~HasKey(w.stores[s].cache, name) THEN [w |-> w, exc |-> "AttributeError", ret |-> <<>>] ELSE [w |-> w, exc |-> "none", ret |-> <<DictGet(w.stores[s].cache, name).time>>]

\* LocMemStorage.get_modified_time
get_modified_time(w, s, name) == IF ~HasKey(w.stores[s].cache, name) THEN [w |-> w, exc |-> "AttributeError", ret |-> <<>>] ELSE [w |-> w, exc |-> "none", ret |-> <<DictGet(w.stores[s].cache, name).time>>]

\* The queries of a store that read the mapping and change nothing.
TimeQueries == {"get_accessed_time", "get_created_time", "get_modified_time"}

Queries == {"exists", "size"} \cup TimeQueries

query(w, s, name, which) ==
    CASE which = "exists" -> exists(w, s, name)
      [] which = "size" -> size(w, s, name)
      [] which = "get_accessed_time" -> get_accessed_time(w, s, name)
      [] which = "get_created_time" -> get_created_time(w, s, name)
      [] which = "get_modified_time" -> get_modified_time(w, s, name)

\* Stats._get_content_file, called by Stats.get_content_file with the
\* parts of field_key.
get_content_file(w, st, field_key, fname) ==
    LET Return(r) == [w |-> r.w, exc |-> r.exc, msg |-> "", ret |-> r.ret]
        Check(got, w1) ==
            IF got.exc = "KeyError" THEN [w |-> w1, exc |-> "StatsTestStorageError", msg |-> "has not been written to yet", ret |-> <<>>]
            ELSE IF NotIn(fname, got.v) THEN [w |-> w1, exc |-> "StatsTestStorageError", msg |-> "has not had a file named", ret |-> <<>>]
            ELSE Return(open_no_log(w1, w1.storage[FieldOfKey(field_key)], fname, <<"r", "b">>))
        Lookup(got) == Check(got, [w EXCEPT !.stats[st].saves_by_field = got.d])
    IN  Lookup(defaultdict_getitem(w.stats[st].saves_by_field, field_key))

\* ------------------------------------------------------------------ actions
\* A controller object before __init__ has run: the class attributes of
\* StorageTestMixin and StatsStorageTestMixin and an empty storage_stack.
InitCtl == [storage |-> NoneRef, storage_callable |-> "", storage_per_field |-> FALSE, stats_obj |-> NoneRef, storage_stack |-> <<>>, previous_storages |-> <<>>]

\* StorageTestContextDecoratorBase.__init__ without its check of unused_arg.
base_init_unchecked(unused_arg) == "none"

\* StorageTestContextDecoratorBase.__init__
base_init(unused_arg) == IF unused_arg # NoArg THEN "TestStorageError" ELSE "none"

\* override_storage.__init__ (storage_kwargs and storage_cls_kwargs only
\* reach the storage constructor and are left out).  obj is <<the object>>,
\* or <<>> when the constructor raised.
override_storage_init(unused_arg, storage_arg, per_field, storage_cls_or_obj) ==
    LET Build(st) == [InitCtl EXCEPT !.storage_callable = IF st.kind = "none" THEN "LocMemStorage" ELSE IF st.kind = "callable" THEN st.cls ELSE "",
                                     !.storage = IF st.kind = "instance" THEN st.ref ELSE NoneRef,
                                     !.storage_per_field = per_field]
    IN  IF base_init(unused_arg) # "none" THEN [exc |-> base_init(unused_arg), obj |-> <<>>]
        ELSE IF storage_cls_or_obj # NoArg /\ storage_arg # NoArg THEN [exc |-> "TestStorageError", obj |-> <<>>]
        ELSE [exc |-> "none", obj |-> <<Build(IF storage_cls_or_obj # NoArg THEN storage_cls_or_obj ELSE storage_arg)>>]

\* stats_override_storage.__init__ and locmem_stats_override_storage
stats_override_storage_init(unused_arg, storage_arg) ==
    IF base_init(unused_arg) # "none" THEN [exc |-> base_init(unused_arg), obj |-> <<>>]
    ELSE [exc |-> "none", obj |-> <<[InitCtl EXCEPT !.storage_callable = IF storage_arg = NoArg THEN "StatsLocMemStorage" ELSE storage_arg.cls]>>]

\* The constructor of the class of controller c.
construct(c, unused_arg, storage_arg, per_field, storage_cls_or_obj) ==
    IF c \in StatsCtrls THEN stats_override_storage_init(unused_arg, storage_arg)
    ELSE override_storage_init(unused_arg, storage_arg, per_field, storage_cls_or_obj)

\* override_storage() and stats_override_storage(): built with no argument.
DefaultCtl(c) == construct(c, NoArg, NoArg, FALSE, NoArg).obj[1]

\* A call: the operation, its inputs (controller c, Stats object st, field,
\* field key, name, content, mode), the exception it raised and what it
\* returned.
Call(op, c, how, fail, exc, ret, teardowns) == [op |-> op, c |-> c, how |-> how, fail |-> fail, exc |-> exc, ret |-> ret, teardowns |-> teardowns, st |-> NoneRef, field |-> "", key |-> <<>>, name |-> <<>>, content |-> <<>>, mode |-> <<>>, msg |-> "", store |-> NoneRef, args |-> <<>>]

IOCall(op, st, field, key, name, content, mode, exc, msg, ret, store) == [op |-> op, c |-> "", how |-> "", fail |-> NoFail, exc |-> exc, ret |-> ret, teardowns |-> 0, st |-> st, field |-> field, key |-> key, name |-> name, content |-> content, mode |-> mode, msg |-> msg, store |-> store, args |-> <<>>]

NoCall == Call("init", "", "", NoFail, "none", NoneRef, 0)

Init ==
    /\ storage = [f \in Fields |-> DeclaredStorage(f)]
    /\ original_storage = [f \in Fields |-> NoneRef]
    /\ stores = <<>>
    /\ stats = <<>>
    /\ ctl = [c \in Ctrls |-> DefaultCtl(c)]
    /\ acts = <<>>
    /\ nested = TRUE
    /\ io = 0
    /\ logged = {}
    /\ saves = <<>>
    /\ thr = [t \in Threads |-> Idle]
    /\ last = [call |-> NoCall, pre |-> [storage |-> [f \in Fields |-> DeclaredStorage(f)], original_storage |-> [f \in Fields |-> NoneRef], stores |-> <<>>, stats |-> <<>>, ctl |-> [c \in Ctrls |-> DefaultCtl(c)]], preActs |-> <<>>]

SetWorld(w) ==
    /\ storage' = w.storage
    /\ original_storage' = w.original_storage
    /\ stores' = w.stores
    /\ stats' = w.stats
    /\ ctl' = w.ctl

\* c.enable(), called directly (how = "enable", as decorate_class's setUp
\* does), by `with c:` (how = "with") or by the wrapper that
\* decorate_callable returns (how = "callable").
Enable(c, how, fail) ==
    \E r \in {enable(World, c, fail)} :
        /\ (fail = NoFail) = (r.exc = "none")
        /\ Len(r.w.stores) <= MaxStores
        /\ Len(r.w.stats) <= MaxStats
        /\ SetWorld(r.w)
        /\ acts' = IF r.exc = "none" THEN Append(acts, [c |-> c, how |-> how, before |-> storage, installed |-> r.w.storage, ret |-> r.ret, at |-> io, callable |-> storage_callable(World, c)]) ELSE acts
        /\ nested' = (nested /\ r.exc = "none")
        /\ last' = [call |-> Call("enable", c, how, fail, r.exc, r.ret, r.teardowns), pre |-> World, preActs |-> acts]
        /\ UNCHANGED <<thr, io, logged, saves>>

\* The open activation a call of c.disable() closes when the calls are
\* properly nested: the innermost one, if it is c's and was opened the same way.
ClosesInnermost(c, how) == Len(acts) > 0 /\ Top(acts).c = c /\ Top(acts).how = how

\* c.disable(), called directly.
Disable(c) ==
    \E r \in {disable(World, c)} :
        /\ SetWorld(r.w)
        /\ acts' = IF ClosesInnermost(c, "enable") THEN SubSeq(acts, 1, Len(acts) - 1) ELSE acts
        /\ nested' = (nested /\ (ClosesInnermost(c, "enable") \/ Len(ctl[c].storage_stack) = 0))
        /\ last' = [call |-> Call("disable", c, "enable", NoFail, r.exc, NoneRef, r.teardowns), pre |-> World, preActs |-> acts]
        /\ UNCHANGED <<thr, io, logged, saves>>

\* The open `with` blocks and decorated calls, oldest first: control leaves
\* the innermost one first.
Blocks == SelectSeq(acts, LAMBDA a : a.how # "enable")

\* __exit__ that restores only when the body ended normally.
exit_unless_raised(w, c, raised) ==
    LET Done(r) == [w |-> r.w, exc |-> r.exc, teardowns |-> r.teardowns, suppress |-> FALSE]
    IN  IF raised THEN [w |-> w, exc |-> "none", teardowns |-> 0, suppress |-> FALSE] ELSE Done(disable(w, c))

\* TestContextDecorator.__exit__: it calls disable() and returns None, so
\* an exception of the body is not suppressed.
exit(w, c, raised) ==
    LET Done(r) == [w |-> r.w, exc |-> r.exc, teardowns |-> r.teardowns, suppress |-> FALSE]
    IN  Done(disable(w, c))

RemoveLastBlock(s) ==
    LET i == CHOOSE j \in 1..Len(s) : s[j].how # "enable" /\ \A m \in (j + 1)..Len(s) : s[m].how = "enable"
    IN  SubSeq(s, 1, i - 1) \o SubSeq(s, i + 1, Len(s))

\* Control leaves the innermost `with c:` block, or the body of the
\* innermost decorated call, normally or (raised) by an exception.
\* exc is the exception that reaches the caller.
Exit(raised) ==
    /\ Len(Blocks) > 0
    /\ \E b \in {Top(Blocks)} : \E r \in {exit(World, b.c, raised)} :
           /\ SetWorld(r.w)
           /\ acts' = RemoveLastBlock(acts)
           /\ nested' = (nested /\ Top(acts).how # "enable")
           /\ last' = [call |-> Call("exit", b.c, b.how, IF raised THEN BodyRaised ELSE NoFail, IF r.exc # "none" THEN r.exc ELSE IF raised /\ ~r.suppress THEN "Error" ELSE "none", NoneRef, r.teardowns), pre |-> World, preActs |-> acts]
           /\ UNCHANGED <<thr, io, logged, saves>>

\* field.storage._save(name, content), on a field that holds a test storage
Save(field, name, content) ==
    /\ IsTestStore(World, storage[field])
    /\ \E r \in {store_save(World, storage[field], name, content, io + 1)} :
           /\ SetWorld(r.w)
           /\ saves' = Append(saves, [store |-> storage[field], requested |-> name, stored |-> r.ret[1], content |-> content, time |-> io + 1, deleted |-> FALSE])
           /\ logged' = IF IsStatsStore(World, storage[field]) THEN logged \cup {<<stores[storage[field]].stats, get_full_field_name(stores[storage[field]].field), name>>} ELSE logged
           /\ last' = [call |-> IOCall("save", stores[storage[field]].stats, field, <<>>, name, content, <<>>, r.exc, "", r.ret, storage[field]), pre |-> World, preActs |-> acts]
    /\ io' = io + 1
    /\ UNCHANGED <<thr, acts, nested>>

\* field.storage._open(name, mode)
Open(field, name, mode) ==
    /\ IsTestStore(World, storage[field])
    /\ \E r \in {store_open(World, storage[field], name, mode)} :
           /\ SetWorld(r.w)
           /\ last' = [call |-> IOCall("open", stores[storage[field]].stats, field, <<>>, name, <<>>, mode, r.exc, "", r.ret, storage[field]), pre |-> World, preActs |-> acts]
    /\ io' = io + 1
    /\ UNCHANGED <<thr, acts, nested, logged, saves>>

\* field.storage.open_no_log(name)
OpenNoLog(field, name) ==
    /\ IsTestStore(World, storage[field])
    /\ \E r \in {open_no_log(World, storage[field], name, <<"r", "b">>)} :
           /\ SetWorld(r.w)
           /\ last' = [call |-> IOCall("open_no_log", stores[storage[field]].stats, field, <<>>, name, <<>>, <<"r", "b">>, r.exc, "", r.ret, storage[field]), pre |-> World, preActs |-> acts]
    /\ io' = io + 1
    /\ UNCHANGED <<thr, acts, nested, logged, saves>>

\* field.storage.delete(name)
Delete(field, name) ==
    /\ IsTestStore(World, storage[field])
    /\ \E r \in {store_delete(World, storage[field], name)} :
           /\ SetWorld(r.w)
           /\ saves' = [i \in 1..Len(saves) |-> IF saves[i].store = storage[field] /\ saves[i].stored = name THEN [saves[i] EXCEPT !.deleted = TRUE] ELSE saves[i]]
           /\ last' = [call |-> IOCall("delete", stores[storage[field]].stats, field, <<>>, name, <<>>, <<>>, r.exc, "", r.ret, storage[field]), pre |-> World, preActs |-> acts]
    /\ io' = io + 1
    /\ UNCHANGED <<thr, acts, nested, logged>>

\* stats.get_content_file(field_key, fname), on a Stats object an enable() returned
GetContentFile(st, field_key, fname) ==
    /\ st \in 1..Len(stats)
    /\ \E r \in {get_content_file(World, st, field_key, fname)} :
           /\ SetWorld(r.w)
           /\ last' = [call |-> IOCall("get_content_file", st, FieldOfKey(field_key), field_key, fname, <<>>, <<>>, r.exc, r.msg, r.ret, NoneRef), pre |-> World, preActs |-> acts]
    /\ io' = io + 1
    /\ UNCHANGED <<thr, acts, nested, logged, saves>>

\* field.storage.exists(name), .size(name), .get_*_time(name)
Query(field, name, which) ==
    /\ IsTestStore(World, storage[field])
    /\ \E r \in {query(World, storage[field], name, which)} :
           /\ SetWorld(r.w)
           /\ last' = [call |-> IOCall(which, stores[storage[field]].stats, field, <<>>, name, <<>>, <<>>, r.exc, "", r.ret, storage[field]), pre |-> World, preActs |-> acts]
    /\ UNCHANGED <<thr, acts, nested, io, logged, saves>>

\* ------------------------------------------------------------------ threads
\* The operations of a store taken statement by statement, as they run
\* when several threads call them at the same time.
\* `with self._lock` that never waits.
lock_ignored(th, s, t) == TRUE

\* `with self._lock`: thread t can take the RLock of store s when no other
\* thread holds it.
lock_free(th, s, t) == \A u \in Threads \ {t} : th[u].holds # s

\* The counter that the log_* call of operation op adds to.
counter(st, op) == IF op = "save" THEN st.save_cnt ELSE IF op = "open" THEN st.read_cnt ELSE st.delete_cnt

\* What each thread saves, and under which name.
ThreadContent(t) == IF t % 2 = 1 THEN [type |-> "str", data |-> "x"] ELSE [type |-> "bytes", data |-> "y"]

ThreadNames == {<<"a">>}

ThreadOps == {"save", "open", "delete"} \cup Queries

\* The first statement of operation op on store s.
FirstPc(w, s, op) ==
    IF op \in Queries THEN "read"
    ELSE IF op = "delete" THEN "acquire"
    ELSE IF IsStatsStore(w, s) THEN "log"
    ELSE IF op = "save" THEN "acquire" ELSE "mode"

\* Thread t calls field.storage._save(name, content), ._open(name),
\* .delete(name), .exists(name), .size(name) or .get_*_time(name).
Begin(t, op, field, name) ==
    /\ thr[t].pc = "idle"
    /\ IsTestStore(World, storage[field])
    /\ thr' = [thr EXCEPT ![t] = [Idle EXCEPT !.pc = FirstPc(World, storage[field], op), !.op = op, !.field = field, !.store = storage[field], !.name = name, !.target = name,
                                               !.content = IF op = "save" THEN <<ThreadContent(t)>> ELSE <<>>, !.mode = IF op = "open" THEN <<"r", "b">> ELSE <<>>]]
    /\ UNCHANGED <<storage, original_storage, stores, stats, ctl, acts, nested, io, logged, saves, last>>

\* `self.save_cnt += 1` (read_cnt, delete_cnt), first half: the value is read.
LogLoad(t) ==
    /\ thr[t].pc = "log"
    /\ thr' = [thr EXCEPT ![t].local = counter(stats[stores[thr[t].store].stats], thr[t].op), ![t].pc = "log_store"]
    /\ UNCHANGED <<storage, original_storage, stores, stats, ctl, acts, nested, io, logged, saves, last>>

\* `self.save_cnt += 1`, second half: the value read, plus one, is written.
LogStore(t) ==
    /\ thr[t].pc = "log_store"
    /\ stats' = [stats EXCEPT ![stores[thr[t].store].stats] =
                    IF thr[t].op = "save" THEN [@ EXCEPT !.save_cnt = thr[t].local + 1]
                    ELSE IF thr[t].op = "open" THEN [@ EXCEPT !.read_cnt = thr[t].local + 1]
                    ELSE [@ EXCEPT !.delete_cnt = thr[t].local + 1]]
    /\ thr' = [thr EXCEPT ![t].pc = "log_field"]
    /\ UNCHANGED <<storage, original_storage, stores, ctl, acts, nested, io, logged, saves, last>>

\* `self.saves_by_field[...] = fname` (reads_by_field, deletes_by_field);
\* the operation then goes on after its log_* call.
LogField(t) ==
    /\ thr[t].pc = "log_field"
    /\ stats' = [stats EXCEPT ![stores[thr[t].store].stats] =
                    IF thr[t].op = "save" THEN [@ EXCEPT !.saves_by_field = DictPut(@, get_full_field_name(stores[thr[t].store].field), StrValue(thr[t].name))]
                    ELSE IF thr[t].op = "open" THEN [@ EXCEPT !.reads_by_field = DictPut(@, get_full_field_name(stores[thr[t].store].field), StrValue(thr[t].name))]
                    ELSE [@ EXCEPT !.deletes_by_field = DictPut(@, get_full_field_name(stores[thr[t].store].field), StrValue(thr[t].name))]]
    /\ logged' = IF thr[t].op = "save" THEN logged \cup {<<stores[thr[t].store].stats, get_full_field_name(stores[thr[t].store].field), thr[t].name>>} ELSE logged
    /\ thr' = [thr EXCEPT ![t].pc = IF thr[t].op = "save" THEN "acquire" ELSE IF thr[t].op = "open" THEN "mode" ELSE "remove"]
    /\ UNCHANGED <<storage, original_storage, stores, ctl, acts, nested, io, saves, last>>

\* `if 'w' in mode: raise NotImplementedError(...)`
CheckMode(t) ==
    /\ thr[t].pc = "mode"
    /\ thr' = IF IsSubstring(<<"w">>, thr[t].mode) THEN [thr EXCEPT ![t].pc = "done", ![t].exc = "NotImplementedError"] ELSE [thr EXCEPT ![t].pc = "acquire"]
    /\ UNCHANGED <<storage, original_storage, stores, stats, ctl, acts, nested, io, logged, saves, last>>

\* `with self._lock:` of _save, _open and delete; delete then calls
\* self._delete, which the instrumented store starts with log_delete.
Acquire(t) ==
    /\ thr[t].pc = "acquire"
    /\ lock_free(thr, thr[t].store, t)
    /\ thr' = [thr EXCEPT ![t].holds = thr[t].store,
                           ![t].pc = IF thr[t].op = "save" THEN "check" ELSE IF thr[t].op = "open" THEN "read" ELSE IF IsStatsStore(World, thr[t].store) THEN "log" ELSE "remove"]
    /\ UNCHANGED <<storage, original_storage, stores, stats, ctl, acts, nested, io, logged, saves, last>>

\* `while name in self.cache: name = self.get_available_name(name)`
CheckName(t) ==
    /\ thr[t].pc = "check"
    /\ thr' = [thr EXCEPT ![t].target = get_available_name(stores[thr[t].store].cache, thr[t].name), ![t].pc = "insert"]
    /\ UNCHANGED <<storage, original_storage, stores, stats, ctl, acts, nested, io, logged, saves, last>>

\* `self.cache[name] = FakeContent(content, now())`, the end of the
\* `with` block and `return name`
Insert(t) ==
    /\ thr[t].pc = "insert"
    /\ stores' = [stores EXCEPT ![thr[t].store].cache = DictPut(@, thr[t].target, [content |-> IF thr[t].content[1].type = "bytes" THEN thr[t].content[1] ELSE encode(thr[t].content[1]), time |-> io + 1])]
    /\ saves' = Append(saves, [store |-> thr[t].store, requested |-> thr[t].name, stored |-> thr[t].target, content |-> thr[t].content[1], time |-> io + 1, deleted |-> FALSE])
    /\ io' = io + 1
    /\ thr' = [thr EXCEPT ![t].pc = "done", ![t].holds = NoneRef, ![t].ret = <<thr[t].target>>]
    /\ UNCHANGED <<storage, original_storage, stats, ctl, acts, nested, logged, last>>

\* The read of the mapping: `self.cache.get(name)` of _open, inside the
\* lock, or `name in self.cache` / `self.cache.get(name)` of exists, size
\* and get_*_time, which take no lock.
Read(t) ==
    /\ thr[t].pc = "read"
    /\ \E r \in {IF thr[t].op = "open" THEN LocMem_open(World, thr[t].store, thr[t].name, thr[t].mode) ELSE query(World, thr[t].store, thr[t].name, thr[t].op)} :
           thr' = [thr EXCEPT ![t].pc = "done", ![t].holds = NoneRef, ![t].ret = r.ret, ![t].exc = r.exc]
    /\ UNCHANGED <<storage, original_storage, stores, stats, ctl, acts, nested, io, logged, saves, last>>

\* `del self.cache[name]` with its `except KeyError: pass`, and the end of
\* the `with` block of delete
Remove(t) ==
    /\ thr[t].pc = "remove"
    /\ stores' = [stores EXCEPT ![thr[t].store].cache = DictDel(@, thr[t].name)]
    /\ saves' = [i \in 1..Len(saves) |-> IF saves[i].store = thr[t].store /\ saves[i].stored = thr[t].name THEN [saves[i] EXCEPT !.deleted = TRUE] ELSE saves[i]]
    /\ thr' = [thr EXCEPT ![t].pc = "done", ![t].holds = NoneRef]
    /\ UNCHANGED <<storage, original_storage, stats, ctl, acts, nested, io, logged, last>>

\* storage = LocMemStorage(), constructed by the caller to be handed to a
\* controller.
NewStorage ==
    /\ Len(stores) < MaxStores
    /\ stores' = Append(stores, NewStore("LocMemStorage", "", NoneRef))
    /\ last' = [call |-> Call("LocMemStorage", "", "", NoFail, "none", Len(stores) + 1, 0), pre |-> World, preActs |-> acts]
    /\ UNCHANGED <<thr, storage, original_storage, stats, ctl, acts, nested, io, logged, saves>>

\* c = override_storage(unused_arg, storage=..., storage_per_field=...,
\* storage_cls_or_obj=...) or c = stats_override_storage(unused_arg,
\* storage=...): the name c is bound to the new object when the constructor
\* returns one, and is left alone when it raises.  The caller rebinds c only
\* while the object c names is not active.
Construct(c, unused_arg, storage_arg, per_field, storage_cls_or_obj) ==
    /\ Len(ctl[c].storage_stack) = 0
    /\ \E r \in {construct(c, unused_arg, storage_arg, per_field, storage_cls_or_obj)} :
           /\ ctl' = IF r.exc = "none" THEN [ctl EXCEPT ![c] = r.obj[1]] ELSE ctl
           /\ last' = [call |-> [Call("construct", c, "", NoFail, r.exc, r.obj, 0) EXCEPT !.args = <<unused_arg, storage_arg, per_field, storage_cls_or_obj>>], pre |-> World, preActs |-> acts]
    /\ UNCHANGED <<thr, storage, original_storage, stores, stats, acts, nested, io, logged, saves>>

\* The controllers of the specifications that nest a plain and an
\* instrumented override.
NestCtrls == {"p", "s"}

Next ==
    \/ \E c \in NestCtrls, fail \in FailPoints : Enable(c, "enable", fail)
    \/ \E c \in NestCtrls : Disable(c)

Spec == Init /\ [][Next]_vars

NextBlock ==
    \/ \E c \in NestCtrls, how \in {"with", "callable"} : Enable(c, how, NoFail)
    \/ \E raised \in BOOLEAN : Exit(raised)

SpecBlock == Init /\ [][NextBlock]_vars

\* A test case of a decorated class is running: its setUp has returned
\* and its tearDown has not been called yet.
CaseRunning == \E i \in 1..Len(acts) : acts[i].how = "class"

\* unittest calls the setUp of the next test case of a class decorated with
\* controller c.  When setUp raises, unittest runs neither the test nor
\* tearDown: an activation that setUp had opened stays in `acts`, marked
\* "abandoned".
SetUp(c, fail, raises) ==
    /\ ~CaseRunning
    /\ \E r \in {setUp(World, c, fail, raises)} :
           /\ (fail = NoFail) = r.enabled
           /\ Len(r.w.stores) <= MaxStores
           /\ Len(r.w.stats) <= MaxStats
           /\ SetWorld(r.w)
           /\ acts' = IF r.enabled THEN Append(acts, [c |-> c, how |-> IF r.exc = "none" THEN "class" ELSE "abandoned", before |-> storage, installed |-> r.w.storage, ret |-> NoneRef, at |-> io, callable |-> storage_callable(World, c)]) ELSE acts
           /\ last' = [call |-> [Call("setUp", c, "class", fail, r.exc, NoneRef, r.teardowns) EXCEPT !.args = <<raises>>], pre |-> World, preActs |-> acts]
    /\ UNCHANGED <<thr, nested, io, logged, saves>>

\* unittest calls tearDown after the test of the running case.  When the
\* class's own tearDown raises, disable() is not reached.
TearDown(raises) ==
    /\ CaseRunning
    /\ \E r \in {tearDown(World, Top(acts).c, raises)} :
           /\ SetWorld(r.w)
           /\ acts' = IF r.disabled THEN SubSeq(acts, 1, Len(acts) - 1) ELSE [acts EXCEPT ![Len(acts)].how = "abandoned"]
           /\ last' = [call |-> [Call("tearDown", Top(acts).c, "class", NoFail, r.exc, NoneRef, r.teardowns) EXCEPT !.args = <<raises>>], pre |-> World, preActs |-> acts]
    /\ UNCHANGED <<thr, nested, io, logged, saves>>

\* The test cases of classes decorated with a controller, run one after
\* the other.
GroupFails == {NoFail, [at |-> "enum", k |-> -1]}

NextGroup ==
    \/ \E c \in NestCtrls, fail \in GroupFails, raises \in BOOLEAN : SetUp(c, fail, raises)
    \/ \E raises \in BOOLEAN : TearDown(raises)

SpecGroup == Init /\ [][NextGroup]_vars

\* Two independent controllers, each enabled and disabled by its own
\* caller: the calls succeed and come in any order.
NextPair ==
    \/ \E c \in NestCtrls : Enable(c, "enable", NoFail)
    \/ \E c \in NestCtrls : Disable(c)

SpecPair == Init /\ [][NextPair]_vars

\* Instrumented overrides, nested by `with`, and the storage operations
\* done through the fields while they are active.
\* The field the storage operations go through.
IOFields == {"f1"}

NextStats ==
    \/ \E c \in StatsCtrls : Enable(c, "with", NoFail)
    \/ Exit(FALSE)
    \/ \E f \in IOFields, name \in Names, content \in Contents : io < MaxIO /\ Save(f, name, content)
    \/ \E f \in IOFields, name \in Names, mode \in Modes : io < MaxIO /\ Open(f, name, mode)
    \/ \E f \in IOFields, name \in Names : io < MaxIO /\ OpenNoLog(f, name)
    \/ \E f \in IOFields, name \in Names : io < MaxIO /\ Delete(f, name)
    \/ \E st \in 1..MaxStats, key \in FieldKeys, name \in Names : io < MaxIO /\ GetContentFile(st, key, name)

SpecStats == Init /\ [][NextStats]_vars

\* One override, plain or instrumented, and up to MaxOps storage operations
\* on the store it installs, with the queries of the store in between.
StoreCtrls == {"p", "s"}

\* A requested name and the name the store derives from it when it is taken.
StoreNames == {<<"a">>, <<"a", "_">>}

NextStore ==
    \/ \E c \in StoreCtrls : Len(acts) = 0 /\ Enable(c, "with", NoFail)
    \/ \E f \in IOFields, name \in StoreNames, content \in Contents : io < MaxOps /\ Save(f, name, content)
    \/ \E f \in IOFields, name \in StoreNames, mode \in Modes : io < MaxOps /\ Open(f, name, mode)
    \/ \E f \in IOFields, name \in StoreNames : io < MaxOps /\ Delete(f, name)
    \/ \E st \in 1..MaxStats, key \in FieldKeys, name \in StoreNames : io < MaxOps /\ GetContentFile(st, key, name)
    \/ \E f \in IOFields, name \in StoreNames, which \in Queries : Query(f, name, which)

SpecStore == Init /\ [][NextStore]_vars

\* One override, plain or instrumented, and two threads that each call one
\* operation of the stores it installed.
NextThreads ==
    \/ \E c \in StoreCtrls : Len(acts) = 0 /\ Enable(c, "with", NoFail)
    \/ \E t \in Threads, op \in ThreadOps, f \in Fields, name \in ThreadNames : Begin(t, op, f, name)
    \/ \E t \in Threads : LogLoad(t)
    \/ \E t \in Threads : LogStore(t)
    \/ \E t \in Threads : LogField(t)
    \/ \E t \in Threads : CheckMode(t)
    \/ \E t \in Threads : Acquire(t)
    \/ \E t \in Threads : CheckName(t)
    \/ \E t \in Threads : Insert(t)
    \/ \E t \in Threads : Read(t)
    \/ \E t \in Threads : Remove(t)

SpecThreads == Init /\ [][NextThreads]_vars

\* Controllers built with every combination of arguments, and what their
\* activations install.
ModeCtrls == {"p", "s"}

\* What a caller passes as unused_arg: nothing, or (a bare decorator) the
\* function being decorated.
UnusedArgs == {NoArg, CallableArg("fake_fn")}

\* What a caller passes as storage to override_storage: nothing, the
\* storage class, or a storage instance it holds.
StorageArgs == {NoArg, CallableArg("LocMemStorage")} \cup {InstanceArg(i) : i \in 1..Len(stores)}

\* The file the storage operations of this specification save.
ModeNames == {<<"a">>}

ModeContents == {[type |-> "str", data |-> "x"]}

NextModes ==
    \/ NewStorage
    \/ \E st \in StorageArgs, pf \in BOOLEAN : Construct("p", NoArg, st, pf, NoArg)
    \/ \E st \in {NoArg, CallableArg("LocMemStorage")} : Construct("p", NoArg, st, FALSE, CallableArg("LocMemStorage"))
    \/ \E st \in {NoArg, CallableArg("StatsLocMemStorage")} : Construct("s", NoArg, st, FALSE, NoArg)
    \/ \E c \in ModeCtrls, u \in UnusedArgs \ {NoArg} : Construct(c, u, NoArg, FALSE, NoArg)
    \/ \E c \in PlainCtrls : Len(acts) < MaxDepth /\ Enable(c, "with", NoFail)
    \/ Exit(FALSE)
    \/ \E f \in IOFields, name \in ModeNames, content \in ModeContents : io < MaxIO /\ Save(f, name, content)

SpecModes == Init /\ [][NextModes]_vars

\* ================================================================== claims
Declared == [f \in Fields |-> DeclaredStorage(f)]

\* The frame entries of `frame` that record `field`.
EntriesOf(frame, field) == {i \in 1..Len(frame) : frame[i].v.field = field}

\* C1: while the calls so far are properly nested successful activations and
\* exits, the fields hold the storages installed by the innermost open
\* activation; each activation installed storages of its own over the ones
\* of the activation below it (the declared ones below the first); and with
\* no activation open every field holds its declared storage again.
C1_NestedRestoreIsLifo ==
    nested =>
        /\ Len(acts) = 0 => storage = Declared
        /\ Len(acts) > 0 => storage = Top(acts).installed
        /\ \A i \in 1..Len(acts) :
            /\ acts[i].before = (IF i = 1 THEN Declared ELSE acts[i - 1].installed)
            /\ \A f \in Fields : acts[i].installed[f] # acts[i].before[f]

\* An inner activation of depth 3 has just been exited, back to depth 2.
C1_Witness ==
    /\ nested
    /\ last.call.op = "disable"
    /\ Len(last.preActs) = 3
    /\ Len(acts) = 2
    /\ storage = acts[2].installed
    /\ acts[1].c = acts[2].c

\* C2: an enable() that raised called teardown exactly once and left every
\* field's storage and the controller's stack as they were before the call.
C2_FailedEnableLeavesNoTrace ==
    (last.call.op = "enable" /\ last.call.exc # "none") =>
        /\ last.call.teardowns = 1
        /\ storage = last.pre.storage
        /\ ctl[last.call.c].storage_stack = last.pre.ctl[last.call.c].storage_stack

\* C3: when the body of a `with` block or of a decorated call raises,
\* disable() runs exactly once, every field holds the storage it held before
\* the block's enable(), and the exception reaches the caller.
C3_BodyRaisesStillRestores ==
    (last.call.op = "exit" /\ last.call.fail = BodyRaised) =>
        /\ last.call.teardowns = 1
        /\ last.call.exc = "Error"
        /\ storage = Top(last.preActs).before
        /\ Len(ctl[last.call.c].storage_stack) = Len(last.pre.ctl[last.call.c].storage_stack) - 1

\* The body of a decorated call, nested in another override, has raised.
C3_Witness ==
    /\ last.call.op = "exit"
    /\ last.call.fail = BodyRaised
    /\ last.call.how = "callable"
    /\ Len(last.preActs) = 2
    /\ last.pre.storage # storage
    /\ storage = acts[1].installed

\* C4: a successful enable() records the field that the enumeration yields
\* twice exactly once, with the storage it held before, and constructs one
\* storage per distinct field when it constructs one per field; the
\* disable() that closes the activation gives every recorded field the
\* storage it held before the activation.
C4_SharedFieldCapturedOnce ==
    /\ (last.call.op = "enable" /\ last.call.exc = "none") =>
        LET frame == Top(ctl[last.call.c].storage_stack)
        IN  /\ \A f \in Fields : Cardinality(EntriesOf(frame, f)) = 1
            /\ \A i \in 1..Len(frame) : frame[i].v.storage = last.pre.storage[frame[i].v.field]
            /\ Len(frame) = Cardinality(Fields)
            /\ last.call.c \in StatsCtrls => Len(stores) = Len(last.pre.stores) + Cardinality(Fields)
            /\ last.call.c \in PlainCtrls => Len(stores) = Len(last.pre.stores) + 1
    /\ (last.call.op = "disable" /\ nested /\ Len(last.preActs) > 0 /\ Top(last.preActs).c = last.call.c) =>
        /\ storage = Top(last.preActs).before
        /\ \A f \in Fields : storage[f] # Top(last.preActs).installed[f]

\* The first override has been disabled and the shared field holds its
\* declared storage again.
C4_Witness ==
    /\ last.call.op = "disable"
    /\ nested
    /\ Len(last.preActs) = 1
    /\ last.pre.storage["f1"] > 0
    /\ storage["f1"] = DeclaredStorage("f1")
    /\ Len(filefields) > Cardinality(Fields)

\* C5: disable() on a controller whose stack is empty raises nothing, leaves
\* the stack empty and changes no field's storage.
C5_DisableOnEmptyStackIsNoOp ==
    (last.call.op = "disable" /\ Len(last.pre.ctl[last.call.c].storage_stack) = 0) =>
        /\ last.call.exc = "none"
        /\ ctl[last.call.c] = last.pre.ctl[last.call.c]
        /\ Len(ctl[last.call.c].storage_stack) = 0
        /\ storage = last.pre.storage

\* disable() on a controller that was enabled and disabled before, while
\* another controller is active.
C5_Witness ==
    /\ last.call.op = "disable"
    /\ Len(last.pre.ctl[last.call.c].storage_stack) = 0
    /\ last.pre.ctl[last.call.c].storage # NoneRef
    /\ Len(acts) > 0

\* The counters of a Stats object.
Counts(st) == <<st.read_cnt, st.save_cnt, st.delete_cnt>>

\* C6: a save through a field goes to the Stats object of the innermost
\* active instrumented override only: its save_cnt grows by one and every
\* other Stats object, the outer override's among them, is unchanged.
C6_SaveCountsInnermostOnly ==
    (last.call.op = "save" /\ Len(acts) > 0) =>
        LET inner == Top(acts).ret
        IN  /\ last.call.st = inner
            /\ stats[inner].save_cnt = last.pre.stats[inner].save_cnt + 1
            /\ stats[inner].read_cnt = last.pre.stats[inner].read_cnt
            /\ stats[inner].delete_cnt = last.pre.stats[inner].delete_cnt
            /\ \A i \in 1..Len(stats) : i # inner => stats[i] = last.pre.stats[i]
            /\ \A i \in 1..Len(acts) : \A j \in 1..Len(acts) : i # j => acts[i].ret # acts[j].ret

\* A save under the inner override, after one save under the outer one.
C6_Witness ==
    /\ last.call.op = "save"
    /\ Len(acts) = 2
    /\ stats[acts[1].ret].save_cnt = 1
    /\ stats[acts[2].ret].save_cnt = 1
    /\ last.pre.stats[acts[2].ret].save_cnt = 0

\* C7: a successful enable() of the instrumented controller returns a Stats
\* object that did not exist before, with all counts 0 and nothing recorded,
\* and every storage it installs is new and wired to that object.
C7_FreshStatsPerActivation ==
    (last.call.op = "enable" /\ last.call.exc = "none" /\ last.call.c \in StatsCtrls) =>
        /\ last.call.ret = Len(last.pre.stats) + 1
        /\ last.call.ret \in 1..Len(stats)
        /\ stats[last.call.ret] = NewStats
        /\ Counts(stats[last.call.ret]) = <<0, 0, 0>>
        /\ \A f \in Fields :
            /\ storage[f] > Len(last.pre.stores)
            /\ IsStatsStore(World, storage[f])
            /\ stores[storage[f]].stats = last.call.ret
            /\ stores[storage[f]].cache = EmptyDict

\* A controller whose earlier activation counted a save is enabled again.
C7_Witness ==
    /\ last.call.op = "enable"
    /\ last.call.exc = "none"
    /\ last.call.c \in StatsCtrls
    /\ last.pre.ctl[last.call.c].stats_obj # NoneRef
    /\ last.pre.stats[last.pre.ctl[last.call.c].stats_obj].save_cnt > 0
    /\ Len(last.preActs) = 0
    /\ stats[last.call.ret].save_cnt = 0

\* What the store of the last call held under the name of the last call.
StoredBefore == DictGet(last.pre.stores[last.call.store].cache, last.call.name).content

HeldBefore == HasKey(last.pre.stores[last.call.store].cache, last.call.name)

\* C8: on an instrumented store, a save adds exactly one to save_cnt and
\* leaves read_cnt and delete_cnt; an open adds exactly one to read_cnt and,
\* for a stored name opened for reading, returns the stored bytes;
\* open_no_log returns the same bytes and changes nothing of any Stats object.
C8_LoggedAndUnloggedAccess ==
    /\ (last.call.op = "save" /\ last.call.st # NoneRef) =>
        Counts(stats[last.call.st]) = <<last.pre.stats[last.call.st].read_cnt, last.pre.stats[last.call.st].save_cnt + 1, last.pre.stats[last.call.st].delete_cnt>>
    /\ (last.call.op = "open" /\ last.call.st # NoneRef) =>
        /\ Counts(stats[last.call.st]) = <<last.pre.stats[last.call.st].read_cnt + 1, last.pre.stats[last.call.st].save_cnt, last.pre.stats[last.call.st].delete_cnt>>
        /\ (HeldBefore /\ last.call.mode = <<"r", "b">>) => (last.call.exc = "none" /\ last.call.ret = <<StoredBefore>>)
        /\ last.call.exc = "none" => (HeldBefore /\ last.call.ret = <<StoredBefore>>)
    /\ (last.call.op = "open_no_log" /\ last.call.st # NoneRef) =>
        /\ stats = last.pre.stats
        /\ stores = last.pre.stores
        /\ HeldBefore => (last.call.exc = "none" /\ last.call.ret = <<StoredBefore>>)
        /\ last.call.exc = "none" => HeldBefore

\* open_no_log has returned the bytes of a file that was saved as text.
C8_Witness ==
    /\ last.call.op = "open_no_log"
    /\ last.call.exc = "none"
    /\ last.call.ret = <<[type |-> "bytes", data |-> "x"]>>
    /\ stats[last.call.st].save_cnt = 1
    /\ stats[last.call.st].read_cnt = 0

\* The names log_save recorded on Stats object st for the field of key.
LoggedNames(st, key) == {n \in Names : <<st, key, n>> \in logged}

\* C9: get_content_file raises StatsTestStorageError whenever no save was
\* recorded for the field under exactly the requested name.
C9_LookupOfUnsavedNameIsNotWritten ==
    (last.call.op = "get_content_file" /\ last.call.name \notin LoggedNames(last.call.st, last.call.key)) =>
        last.call.exc = "StatsTestStorageError"

\* C10: the NotWritten failure tells its two causes apart: 'has not been
\* written to yet' for a field with no recorded save, 'has not had a file
\* named' for a field with saves but none under the requested name.
C10_NotWrittenCausesAreDistinguished ==
    (last.call.op = "get_content_file" /\ last.call.exc = "StatsTestStorageError") =>
        /\ LoggedNames(last.call.st, last.call.key) = {} => last.call.msg = "has not been written to yet"
        /\ LoggedNames(last.call.st, last.call.key) # {} => last.call.msg = "has not had a file named"

\* The saves, by their place in the history, that went through an
\* instrumented store of field f wired to Stats object st.
SavesOn(st, f) == {i \in 1..Len(saves) : stores[saves[i].store].stats = st /\ stores[saves[i].store].field = f}

\* The bytes a store is to hold for content given to save.
AsBytes(content) == [type |-> "bytes", data |-> content.data]

\* C11: get_content_file, asked for the stored name of the most recent save
\* on the field (its blob not deleted since), returns the bytes of the saved
\* content and leaves read_cnt as it was, also when the store had renamed.
C11_ContentOfMostRecentSave ==
    (last.call.op = "get_content_file" /\ SavesOn(last.call.st, last.call.field) # {}) =>
        LET i == CHOOSE j \in SavesOn(last.call.st, last.call.field) : \A m \in SavesOn(last.call.st, last.call.field) : m <= j
        IN  (saves[i].stored = last.call.name /\ ~saves[i].deleted) =>
                /\ last.call.exc = "none"
                /\ last.call.ret = <<AsBytes(saves[i].content)>>
                /\ stats[last.call.st].read_cnt = last.pre.stats[last.call.st].read_cnt

Live == {i \in 1..Len(saves) : ~saves[i].deleted}

\* C13: a blob that was saved and not deleted since exists under the name
\* save returned and opens to the saved content as bytes (text encoded,
\* bytes as given); an open for reading of such a name returns those bytes;
\* after delete(n) the name n does not exist.
C13_SavedBlobReadsBackUntilDeleted ==
    /\ \A i \in Live :
        /\ exists(World, saves[i].store, saves[i].stored).ret = <<TRUE>>
        /\ LocMem_open(World, saves[i].store, saves[i].stored, <<"r", "b">>).exc = "none"
        /\ LocMem_open(World, saves[i].store, saves[i].stored, <<"r", "b">>).ret = <<AsBytes(saves[i].content)>>
    /\ (last.call.op = "open" /\ last.call.mode = <<"r", "b">>) =>
        \A i \in Live : (saves[i].store = last.call.store /\ saves[i].stored = last.call.name) => (last.call.exc = "none" /\ last.call.ret = <<AsBytes(saves[i].content)>>)
    /\ last.call.op = "delete" => exists(World, last.call.store, last.call.name).ret = <<FALSE>>
    /\ last.call.op = "exists" => (last.call.ret = <<TRUE>>) = (\E i \in Live : saves[i].store = last.call.store /\ saves[i].stored = last.call.name)

\* exists answers FALSE for a name that was saved and deleted, while a
\* renamed blob saved as text is still held.
C13_Witness ==
    /\ last.call.op = "exists"
    /\ last.call.ret = <<FALSE>>
    /\ \E i \in 1..Len(saves) : saves[i].deleted /\ saves[i].store = last.call.store /\ saves[i].stored = last.call.name
    /\ \E i \in Live : saves[i].store = last.call.store /\ saves[i].stored # saves[i].requested /\ saves[i].content.type = "str"

\* The cache of the store of the last call, before and after the call.
CacheBefore == last.pre.stores[last.call.store].cache

CacheAfter == stores[last.call.store].cache

\* C14: delete raises nothing; it removes the entry of the name and leaves
\* every other entry as it was; for a name the store does not hold (never
\* saved, or deleted before) the store is left exactly as it was.
C14_DeleteIsIdempotent ==
    last.call.op = "delete" =>
        /\ last.call.exc = "none"
        /\ ~HasKey(CacheAfter, last.call.name)
        /\ \A i \in 1..Len(CacheBefore) : CacheBefore[i].k # last.call.name => (HasKey(CacheAfter, CacheBefore[i].k) /\ DictGet(CacheAfter, CacheBefore[i].k) = CacheBefore[i].v)
        /\ \A i \in 1..Len(CacheAfter) : HasKey(CacheBefore, CacheAfter[i].k)
        /\ ~HeldBefore => stores = last.pre.stores

\* A name is deleted a second time.
C14_Witness ==
    /\ last.call.op = "delete"
    /\ ~HeldBefore
    /\ \E i \in 1..Len(saves) : saves[i].deleted /\ saves[i].store = last.call.store /\ saves[i].stored = last.call.name
    /\ last.call.exc = "none"

\* C15: open, size and the three time queries on a name the store does not
\* hold raise (AttributeError, from `cache.get(name)` being None), return
\* nothing, and leave the mapping as it was, without an entry for the name.
C15_AbsentNameFails ==
    (last.call.op \in ({"open", "size"} \cup TimeQueries) /\ last.call.store # NoneRef /\ ~HeldBefore) =>
        /\ last.call.exc # "none"
        /\ last.call.mode # <<"w", "b">> => last.call.exc = "AttributeError"
        /\ last.call.ret = <<>>
        /\ CacheAfter = CacheBefore
        /\ ~HasKey(CacheAfter, last.call.name)

\* size is asked for a name that was deleted, of a store that holds a blob.
C15_Witness ==
    /\ last.call.op = "size"
    /\ ~HeldBefore
    /\ last.call.exc = "AttributeError"
    /\ Len(CacheAfter) > 0
    /\ \E i \in 1..Len(saves) : saves[i].deleted /\ saves[i].stored = last.call.name

\* C16: save returns a name the store did not hold before the call and
\* holds the content, as bytes, under it; the name is the requested one
\* exactly when that was free; every entry held before is still held with
\* the same content and time.
C16_SaveNeverOverwrites ==
    last.call.op = "save" =>
        /\ last.call.exc = "none"
        /\ ~HasKey(CacheBefore, last.call.ret[1])
        /\ HasKey(CacheAfter, last.call.ret[1])
        /\ DictGet(CacheAfter, last.call.ret[1]).content = AsBytes(last.call.content)
        /\ (last.call.ret[1] = last.call.name) = ~HeldBefore
        /\ Len(CacheAfter) = Len(CacheBefore) + 1
        /\ \A i \in 1..Len(CacheBefore) : HasKey(CacheAfter, CacheBefore[i].k) /\ DictGet(CacheAfter, CacheBefore[i].k) = CacheBefore[i].v

\* A save under a taken name, of other content than the blob that holds it.
C16_Witness ==
    /\ last.call.op = "save"
    /\ HeldBefore
    /\ last.call.ret[1] # last.call.name
    /\ StoredBefore # AsBytes(last.call.content)
    /\ DictGet(CacheAfter, last.call.name).content = StoredBefore

\* The live saves that went to store s.
LiveIn(s) == {i \in Live : saves[i].store = s}

\* C17: every store holds exactly the blobs saved to it and not deleted
\* since, each with the content and the time of its save, however many
\* there are: with no delete, as many entries as saves.
C17_StoreNeverEvicts ==
    \A s \in 1..Len(stores) :
        /\ Len(stores[s].cache) = Cardinality(LiveIn(s))
        /\ \A i \in LiveIn(s) :
            /\ HasKey(stores[s].cache, saves[i].stored)
            /\ DictGet(stores[s].cache, saves[i].stored) = [content |-> AsBytes(saves[i].content), time |-> saves[i].time]

\* Three saves and no delete: the store holds three blobs.
C17_Witness ==
    /\ Len(saves) = 3
    /\ Live = 1..3
    /\ \E s \in 1..Len(stores) : LiveIn(s) = 1..3 /\ Len(stores[s].cache) = 3

\* C18: what a successful enable() of override_storage installs follows
\* the way the controller was built: a given storage instance goes to every
\* field and nothing is constructed; a constructor without storage_per_field
\* is called once and its one result goes to every field; with
\* storage_per_field it is called once per field and no two fields share.
C18_InstalledStorageFollowsSharingMode ==
    (last.call.op = "enable" /\ last.call.exc = "none" /\ last.call.c \in PlainCtrls) =>
        LET cfg == last.pre.ctl[last.call.c]
            made == Len(stores) - Len(last.pre.stores)
        IN  /\ cfg.storage_callable = "" =>
                /\ made = 0
                /\ cfg.storage # NoneRef
                /\ \A f \in Fields : storage[f] = cfg.storage
            /\ (cfg.storage_callable # "" /\ ~cfg.storage_per_field) =>
                /\ made = 1
                /\ \A f \in Fields : storage[f] = Len(stores)
            /\ (cfg.storage_callable # "" /\ cfg.storage_per_field) =>
                /\ made = Cardinality(Fields)
                /\ \A f \in Fields : storage[f] > Len(last.pre.stores)
                /\ \A f \in Fields : \A g \in Fields : f # g => storage[f] # storage[g]

\* A controller built with storage_per_field is enabled after the caller
\* had constructed a storage of its own.
C18_Witness ==
    /\ last.call.op = "enable"
    /\ last.call.exc = "none"
    /\ last.pre.ctl[last.call.c].storage_per_field
    /\ last.pre.ctl[last.call.c].storage_callable = "LocMemStorage"
    /\ Len(last.pre.stores) > 0
    /\ storage["f1"] # storage["f2"]

\* C19: an activation of a controller built from a storage constructor
\* installs stores that did not exist before and hold nothing; and while
\* such an activation is the innermost one, every blob reachable through a
\* field was saved after that activation began.
C19_ActivationsDoNotShareBlobs ==
    /\ (last.call.op = "enable" /\ last.call.exc = "none" /\ last.pre.ctl[last.call.c].storage_callable # "") =>
        \A f \in Fields :
            /\ storage[f] > Len(last.pre.stores)
            /\ stores[storage[f]].cache = EmptyDict
    /\ (Len(acts) > 0 /\ Top(acts).callable # "") =>
        \A f \in Fields : IsTestStore(World, storage[f]) =>
            \A i \in 1..Len(stores[storage[f]].cache) : stores[storage[f]].cache[i].v.time > Top(acts).at

\* A controller is enabled again after a blob was saved to the store its
\* earlier activation had installed.
C19_Witness ==
    /\ last.call.op = "enable"
    /\ last.call.exc = "none"
    /\ last.pre.ctl[last.call.c].storage_callable # ""
    /\ last.pre.ctl[last.call.c].storage # NoneRef
    /\ last.pre.stores[last.pre.ctl[last.call.c].storage].cache # EmptyDict
    /\ storage["f1"] # last.pre.ctl[last.call.c].storage

\* C20: a constructor given a first positional argument raises
\* TestStorageError and returns no controller; nothing of the program's
\* state changes: no controller, no field's storage, no open activation.
C20_StrayPositionalArgumentFailsFast ==
    (last.call.op = "construct" /\ last.call.args[1] # NoArg) =>
        /\ last.call.exc = "TestStorageError"
        /\ last.call.ret = <<>>
        /\ World = last.pre
        /\ acts = last.preActs

\* override_storage and stats_override_storage have each been applied as a
\* bare decorator, the former while the name was bound to a controller
\* built with other arguments.
C20_Witness ==
    /\ last.call.op = "construct"
    /\ last.call.args[1] = CallableArg("fake_fn")
    /\ last.call.exc = "TestStorageError"
    /\ \/ last.call.c \in StatsCtrls /\ Len(acts) > 0
       \/ last.call.c \in PlainCtrls /\ ctl[last.call.c] # DefaultCtl(last.call.c)

\* The field identities of the enumeration.
Identities == {get_field_hash(filefields[i]) : i \in 1..Len(filefields)}

\* C24: after a successful enable() the controller's stack is the stack of
\* before with one frame on top, and previous_storages is that frame; the
\* frame has one entry per field identity of the enumeration, each with the
\* field and the storage the field held before the call; every enumerated
\* field holds a test storage that this activation installed.
C24_FrameOfSuccessfulEnable ==
    (last.call.op = "enable" /\ last.call.exc = "none") =>
        LET stack == ctl[last.call.c].storage_stack
            before == last.pre.ctl[last.call.c].storage_stack
            cfg == last.pre.ctl[last.call.c]
        IN  /\ Len(stack) = Len(before) + 1
            /\ SubSeq(stack, 1, Len(before)) = before
            /\ ctl[last.call.c].previous_storages = <<Top(stack)>>
            /\ {Top(stack)[i].k : i \in 1..Len(Top(stack))} = Identities
            /\ Len(Top(stack)) = Cardinality(Identities)
            /\ \A i \in 1..Len(Top(stack)) :
                /\ get_field_hash(Top(stack)[i].v.field) = Top(stack)[i].k
                /\ Top(stack)[i].v.storage = last.pre.storage[Top(stack)[i].v.field]
            /\ \A i \in 1..Len(filefields) :
                /\ IsTestStore(World, storage[filefields[i]])
                /\ IF cfg.storage_callable = "" THEN storage[filefields[i]] = cfg.storage ELSE storage[filefields[i]] > Len(last.pre.stores)

\* A controller that is already active is enabled again over another one.
C24_Witness ==
    /\ last.call.op = "enable"
    /\ last.call.exc = "none"
    /\ Len(ctl[last.call.c].storage_stack) = 2
    /\ Len(acts) = 3
    /\ acts[2].c # last.call.c
    /\ Top(ctl[last.call.c].storage_stack)[1].v.storage = acts[2].installed["f1"]

\* The fields a frame records.
FieldsOf(frame) == {frame[i].v.field : i \in 1..Len(frame)}

\* C25: disable() on a controller with a frame removes the top frame and
\* nothing else from the stack; each field the frame records holds the
\* storage recorded for it, whatever it held before; every other field is
\* as it was; previous_storages is the new top frame, or None.
C25_DisablePopsAndRestoresTopFrame ==
    (last.call.op = "disable" /\ Len(last.pre.ctl[last.call.c].storage_stack) > 0) =>
        LET before == last.pre.ctl[last.call.c].storage_stack
            stack == ctl[last.call.c].storage_stack
            popped == Top(before)
        IN  /\ last.call.exc = "none"
            /\ stack = SubSeq(before, 1, Len(before) - 1)
            /\ \A i \in 1..Len(popped) : storage[popped[i].v.field] = popped[i].v.storage
            /\ \A f \in Fields \ FieldsOf(popped) : storage[f] = last.pre.storage[f]
            /\ ctl[last.call.c].previous_storages = (IF Len(stack) > 0 THEN <<Top(stack)>> ELSE <<>>)
            /\ \A c \in Ctrls \ {last.call.c} : ctl[c] = last.pre.ctl[c]

\* A controller is disabled while the fields hold the storages of another
\* controller enabled after it, and it has a lower frame left.
C25_Witness ==
    /\ last.call.op = "disable"
    /\ Len(last.pre.ctl[last.call.c].storage_stack) = 2
    /\ Len(last.preActs) > 0
    /\ Top(last.preActs).c # last.call.c
    /\ last.pre.storage = Top(last.preActs).installed
    /\ storage # last.pre.storage

\* C27: an open through an instrumented store that raises (the name is
\* absent, or the mode asks for writing) has added one to read_cnt and set
\* reads_by_field of the field to the requested name, as one that succeeds.
C27_FailedOpenIsCounted ==
    (last.call.op = "open" /\ last.call.st # NoneRef) =>
        /\ stats[last.call.st].read_cnt = last.pre.stats[last.call.st].read_cnt + 1
        /\ HasKey(stats[last.call.st].reads_by_field, get_full_field_name(last.call.field))
        /\ DictGet(stats[last.call.st].reads_by_field, get_full_field_name(last.call.field)) = StrValue(last.call.name)
        /\ (~HeldBefore \/ last.call.mode = <<"w", "b">>) => last.call.exc # "none"

\* Two opens have failed, one for an absent name and one for writing.
C27_Witness ==
    /\ last.call.op = "open"
    /\ last.call.exc = "NotImplementedError"
    /\ last.pre.stats[last.call.st].read_cnt = 1
    /\ stats[last.call.st].read_cnt = 2
    /\ stats[last.call.st].save_cnt = 0
    /\ stores[last.call.store].cache = EmptyDict

\* C28: a get_content_file that raises StatsTestStorageError leaves every
\* Stats object as it was.
C28_FailedLookupLeavesStats ==
    (last.call.op = "get_content_file" /\ last.call.exc = "StatsTestStorageError") =>
        stats = last.pre.stats

\* The open activation that returned Stats object st.
OwnerOf(st) == CHOOSE i \in 1..Len(acts) : acts[i].ret = st

\* C29: the Stats object of an open activation returns, for a name saved
\* through a field under that activation and not renamed or deleted, the
\* saved content, also while the field holds the store of an inner override.
C29_LookupReadsOwnersStore ==
    (last.call.op = "get_content_file" /\ \E i \in 1..Len(acts) : acts[i].ret = last.call.st) =>
        \A i \in Live :
            (/\ saves[i].store = acts[OwnerOf(last.call.st)].installed[last.call.field]
             /\ saves[i].stored = last.call.name
             /\ saves[i].requested = last.call.name) =>
                /\ last.call.exc = "none"
                /\ last.call.ret = <<AsBytes(saves[i].content)>>

\* C26: once every controller that was enabled has been disabled, in
\* whatever order, every field holds the storage it held before the first
\* enable().
C26_AnyDisableOrderRestores ==
    (\A c \in Ctrls : Len(ctl[c].storage_stack) = 0) => storage = Declared

\* C21: when a test case of a decorated class is over (its setUp raised
\* after a successful enable(), or its tearDown was called), the enable()
\* of the case has been matched by one disable(): teardown_storage ran once
\* and the fields hold what they held before the case's setUp.
C21_EveryCaseIsDisabled ==
    /\ (last.call.op = "setUp" /\ last.call.fail = NoFail /\ last.call.exc # "none") =>
        /\ last.call.teardowns = 1
        /\ storage = last.pre.storage
    /\ last.call.op = "tearDown" =>
        /\ last.call.teardowns = 1
        /\ storage = Top(last.preActs).before

\* Thread t has returned from a save, with the stored name.
DoneSave(t) == thr[t].pc = "done" /\ thr[t].op = "save" /\ thr[t].exc = "none"

\* No thread has removed a name from store s.
NoDeleteOn(s) == \A v \in Threads : ~(thr[v].op = "delete" /\ thr[v].store = s /\ thr[v].pc = "done")

\* C22: the lock of a store is held by one thread at a time, and two
\* threads that saved under the same requested name on the same store, in
\* whatever interleaving, returned two different stored names and both
\* contents are in the mapping, as bytes, under the names returned.
C22_ConcurrentSavesBothKept ==
    /\ \A t, u \in Threads : (t # u /\ thr[t].holds # NoneRef) => thr[u].holds # thr[t].holds
    /\ \A t, u \in Threads :
        (/\ t # u
         /\ DoneSave(t) /\ DoneSave(u)
         /\ thr[t].store = thr[u].store
         /\ thr[t].name = thr[u].name
         /\ NoDeleteOn(thr[t].store)) =>
            /\ thr[t].ret # thr[u].ret
            /\ \A v \in {t, u} :
                /\ HasKey(stores[thr[v].store].cache, thr[v].ret[1])
                /\ DictGet(stores[thr[v].store].cache, thr[v].ret[1]).content = AsBytes(thr[v].content[1])

C22_Witness ==
    \E t, u \in Threads :
        /\ t # u
        /\ DoneSave(t) /\ DoneSave(u)
        /\ thr[t].store = thr[u].store
        /\ thr[t].name = thr[u].name
        /\ thr[t].content # thr[u].content
        /\ thr[t].ret = <<thr[t].name>>
        /\ thr[u].ret = <<thr[u].name \o <<"_">>>>

\* Thread t is inside the critical section of a write to its store: it
\* holds the lock for a save's check and insertion or for a delete.
InWrite(t) == thr[t].holds # NoneRef /\ thr[t].op \in {"save", "delete"}

\* Thread t is about to read the mapping of its store.
Reading(t) == thr[t].pc = "read"

\* C23: no thread reads the mapping of a store (open, exists, size,
\* get_*_time) while another thread is inside the critical section of a
\* save or a delete on the same store.
C23_NoReadDuringWrite ==
    \A t, u \in Threads :
        (t # u /\ InWrite(t) /\ Reading(u)) => thr[u].store # thr[t].store

\* The calls of operation op that have finished their log_* call on a
\* store reporting to the Stats object st.
LoggedCalls(st, op) ==
    {t \in Threads : thr[t].op = op /\ thr[t].pc = "done" /\ IsStatsStore(World, thr[t].store) /\ stores[thr[t].store].stats = st}

\* C30: when every thread has returned, save_cnt and read_cnt of a Stats
\* object equal the number of saves and opens made through its stores.
C30_CountersAreExact ==
    (\A t \in Threads : thr[t].pc = "done") =>
        \A st \in 1..Len(stats) :
            /\ stats[st].save_cnt = Cardinality(LoggedCalls(st, "save"))
            /\ stats[st].read_cnt = Cardinality(LoggedCalls(st, "open"))

====
